---- MODULE Spec2Model ----
(***************************************************************************)
(* Model of vmaxtui's watch/dispatch pipeline: the FileQueue class and the *)
(* UpdateListener dispatcher of oomer_filequeue.h, and the watch loop and  *)
(* engine observer of vmaxtui.cpp.                                         *)
(*                                                                         *)
(* Strings are sequences of one-character strings, so that concatenation   *)
(* (dir + filename) and endsWith are computed as the code computes them.   *)
(***************************************************************************)
EXTENDS Integers, Sequences, FiniteSets

VARIABLES
    \* ---- watch mode (vmaxtui.cpp, oomer_filequeue.h) ----
    should_stop_,     \* UpdateListener::should_stop_
    fileQueue,        \* global fileQueue   (dispatcher's add queue)
    unfileQueue,      \* global unfileQueue (dispatcher's remove queue)
    renderQueue,      \* DL_main's renderQueue   (the loop's add_queue)
    renderUnqueue,    \* DL_main's renderUnqueue (the loop's remove_queue)
    active_render,    \* std::atomic<bool> active_render
    pc,               \* position of the main thread in the watch loop
    engineScene,      \* the scene file the engine has loaded (engine.loadScene)
    inflight,         \* renders started by engine.start() that have not yet stopped
    errored,          \* onError has been delivered for the render in flight
    stopRequested,    \* engine.stop() has been called and not yet answered by onStopped
    deleted,          \* history: paths whose Delete was observed while waiting, not re-added since
    deletedInFlight,  \* history: a Delete of the path in flight was observed during its render
    written,          \* the scene files written by Scene::write
    \* ---- a FileQueue driven by arbitrary calls ----
    q,                \* the FileQueue object
    other,            \* a second FileQueue object, the source or target of a move
    calls,            \* history: the last HistLen calls, each with the queue before it and its result
    order,            \* history: the paths held, in the order their pushes appended them
    scn,              \* history: how many calls of the push a, push b, push a, pop, pop, pop scenario have run
    \* ---- one call of a function of the converter ----
    arg,              \* the arguments of the call
    result,           \* what the call has computed so far
    fpc               \* position of the call; in watch mode, of the watcher's callback

pvars == <<should_stop_, fileQueue, unfileQueue, renderQueue, renderUnqueue,
           active_render, pc, engineScene, inflight, errored,
           stopRequested, deleted, deletedInFlight, written>>
qvars == <<q, other, calls, order, scn>>
fvars == <<arg, result, fpc>>
vars == <<should_stop_, fileQueue, unfileQueue, renderQueue, renderUnqueue,
          active_render, pc, engineScene, inflight, errored,
          stopRequested, deleted, deletedInFlight, written, q, other, calls, order, scn,
          arg, result, fpc>>

-----------------------------------------------------------------------------
(* Strings *)

Range(s) == {s[i] : i \in 1..Len(s)}

EmptyStr == << >>
EXT_BSZ == <<".", "b", "s", "z">>
EXT_VMAX == <<".", "v", "m", "a", "x">>
EXT_ZIP == <<".", "z", "i", "p">>
EXT_TXT == <<".", "t", "x", "t">>
DOWNLOAD_DIR == <<"d", "o", "w", "n", "l", "o", "a", "d", "/">>
WATCH_DIR == <<"w", "/">>

\* endsWith(str, suffix), oomer_filequeue.h
endsWith(str, suffix) ==
    IF Len(str) < Len(suffix)
    THEN FALSE
    ELSE SubSeq(str, Len(str) - Len(suffix) + 1, Len(str)) = suffix

-----------------------------------------------------------------------------
(* class FileQueue: pathVector is the std::vector, pathMap the key set of   *)
(* the std::map<std::string,bool> (every stored value is true).  Each       *)
(* operation runs under the queue's own mutex, hence atomically; it yields  *)
(* the queue after the call, the return value and, for pop and probe, the   *)
(* out parameter (EmptyStr when it is not written).                         *)

EmptyQueue == [pathVector |-> << >>, pathMap |-> {}]

\* a push that does not consult pathMap
pushNoLookup(fq, path) ==
    [q |-> [pathVector |-> Append(fq.pathVector, path),
            pathMap |-> fq.pathMap \cup {path}],
     ret |-> TRUE, out |-> EmptyStr]

\* a push that inserts at the front of pathVector
pushFront(fq, path) ==
    IF path \notin fq.pathMap
    THEN [q |-> [pathVector |-> <<path>> \o fq.pathVector,
                 pathMap |-> fq.pathMap \cup {path}],
          ret |-> TRUE, out |-> EmptyStr]
    ELSE [q |-> fq, ret |-> FALSE, out |-> EmptyStr]

push(fq, path) ==
    IF path \notin fq.pathMap
    THEN [q |-> [pathVector |-> Append(fq.pathVector, path),
                 pathMap |-> fq.pathMap \cup {path}],
          ret |-> TRUE, out |-> EmptyStr]
    ELSE [q |-> fq, ret |-> FALSE, out |-> EmptyStr]

pop(fq) ==
    IF fq.pathVector # << >>
    THEN LET outPath == Head(fq.pathVector)
         IN [q |-> [pathVector |-> Tail(fq.pathVector),
                    pathMap |-> fq.pathMap \ {outPath}],
             ret |-> TRUE, out |-> outPath]
    ELSE [q |-> fq, ret |-> FALSE, out |-> EmptyStr]

probe(fq) ==
    IF fq.pathVector # << >>
    THEN [q |-> fq, ret |-> TRUE, out |-> Head(fq.pathVector)]
    ELSE [q |-> fq, ret |-> FALSE, out |-> EmptyStr]

\* a remove that erases the map entry and leaves the vector alone
removeMapOnly(fq, path) ==
    IF path \in fq.pathMap
    THEN [q |-> [pathVector |-> fq.pathVector, pathMap |-> fq.pathMap \ {path}],
          ret |-> TRUE, out |-> EmptyStr]
    ELSE [q |-> fq, ret |-> FALSE, out |-> EmptyStr]

remove(fq, path) ==
    IF path \in fq.pathMap
    THEN [q |-> [pathVector |-> SelectSeq(fq.pathVector, LAMBDA x : x # path),
                 pathMap |-> fq.pathMap \ {path}],
          ret |-> TRUE, out |-> EmptyStr]
    ELSE [q |-> fq, ret |-> FALSE, out |-> EmptyStr]

contains(fq, path) == path \in fq.pathMap

size(fq) == Len(fq.pathVector)

empty(fq) == fq.pathVector = << >>

clear(fq) == [pathVector |-> << >>, pathMap |-> {}]

\* FileQueue(FileQueue&& other), lines 43-47: the new queue takes the vector
\* and the map of the other one, which is left without elements
moveConstruct(otherq) == [q |-> otherq, other |-> EmptyQueue]

\* operator=(FileQueue&& other), lines 50-58, for this != &other
moveAssign(fq, otherq) == [q |-> otherq, other |-> EmptyQueue]

-----------------------------------------------------------------------------
(* A FileQueue under arbitrary calls.  Starting from the default-constructed *)
(* queue, any of push, pop, probe, remove, contains and clear is called with *)
(* any path of QPaths; a second queue, filled by pushes, is move-assigned to *)
(* it, and a new queue is move-constructed from it.                          *)

HistLen == 2

PathA == <<"a">>
PathB == <<"b">>
PathC == <<"c">>
QPaths == {PathA, PathB, PathC}

\* the paths pushed to the second queue
OtherPaths == {PathA, PathB}

\* the calls of the seed scenario: push a, push b, push a, pop, pop, pop
Scenario == << <<"push", PathA>>, <<"push", PathB>>, <<"push", PathA>>,
               <<"pop", EmptyStr>>, <<"pop", EmptyStr>>, <<"pop", EmptyStr>> >>

\* history bookkeeping for a call op(path) that took the queue from q to r.q
Called(op, path, r) ==
    LET rec == [op |-> op, path |-> path, pre |-> q, ret |-> r.ret, out |-> r.out,
                first |-> IF order = << >> THEN EmptyStr ELSE Head(order)]
        all == Append(calls, rec)
    IN /\ calls' = IF Len(all) > HistLen THEN Tail(all) ELSE all
       /\ scn' = IF scn >= 0 /\ scn < Len(Scenario) /\ Scenario[scn + 1] = <<op, path>>
                 THEN scn + 1
                 ELSE -1

QPush(path) ==
    LET r == push(q, path)
    IN /\ q' = r.q
       /\ other' = other
       /\ order' = IF path \in Range(order) THEN order ELSE Append(order, path)
       /\ Called("push", path, r)
       /\ UNCHANGED <<pvars, fvars>>

QPop ==
    LET r == pop(q)
    IN /\ q' = r.q
       /\ other' = other
       /\ order' = IF order = << >> THEN order ELSE Tail(order)
       /\ Called("pop", EmptyStr, r)
       /\ UNCHANGED <<pvars, fvars>>

QProbe ==
    LET r == probe(q)
    IN /\ q' = r.q
       /\ other' = other
       /\ order' = order
       /\ Called("probe", EmptyStr, r)
       /\ UNCHANGED <<pvars, fvars>>

QRemove(path) ==
    LET r == remove(q, path)
    IN /\ q' = r.q
       /\ other' = other
       /\ order' = SelectSeq(order, LAMBDA x : x # path)
       /\ Called("remove", path, r)
       /\ UNCHANGED <<pvars, fvars>>

QContains(path) ==
    /\ q' = q
    /\ other' = other
    /\ order' = order
    /\ Called("contains", path, [ret |-> contains(q, path), out |-> EmptyStr])
    /\ UNCHANGED <<pvars, fvars>>

QClear ==
    /\ q' = clear(q)
    /\ other' = other
    /\ order' = << >>
    /\ Called("clear", EmptyStr, [ret |-> TRUE, out |-> EmptyStr])
    /\ UNCHANGED <<pvars, fvars>>

\* other.push(path): the second queue is filled
QPushOther(path) ==
    /\ other' = push(other, path).q
    /\ UNCHANGED <<q, calls, order, scn>>
    /\ UNCHANGED <<pvars, fvars>>

\* q = std::move(other)
QMoveAssign ==
    LET r == moveAssign(q, other)
    IN /\ q' = r.q
       /\ other' = r.other
       /\ order' = other.pathVector
       /\ Called("move_assign", EmptyStr, [ret |-> TRUE, out |-> EmptyStr])
       /\ UNCHANGED <<pvars, fvars>>

\* FileQueue other(std::move(q)): q is the moved-from queue
QMoveConstruct ==
    LET r == moveConstruct(q)
    IN /\ other' = r.q
       /\ q' = r.other
       /\ order' = << >>
       /\ Called("move_from", EmptyStr, [ret |-> TRUE, out |-> EmptyStr])
       /\ UNCHANGED <<pvars, fvars>>

NextQ ==
    \/ \E path \in QPaths : QPush(path)
    \/ QPop
    \/ QProbe
    \/ \E path \in QPaths : QRemove(path)
    \/ \E path \in QPaths : QContains(path)
    \/ QClear
    \/ \E path \in OtherPaths : QPushOther(path)
    \/ QMoveAssign
    \/ QMoveConstruct

-----------------------------------------------------------------------------
(* class UpdateListener: the efsw watcher thread's callback.                *)

ActionAdd == "efsw::Actions::Add"
ActionDelete == "efsw::Actions::Delete"
ActionModified == "efsw::Actions::Modified"
ActionMoved == "efsw::Actions::Moved"
Actions == {ActionAdd, ActionDelete, ActionModified, ActionMoved}

getActionName(action) ==
    CASE action = ActionAdd -> "Add"
      [] action = ActionModified -> "Modified"
      [] action = ActionDelete -> "Delete"
      [] action = ActionMoved -> "Moved"
      [] OTHER -> "Bad Action"

\* the condition of line 206; && binds tighter than ||
isQueued(belPath, parentPath) ==
    \/ endsWith(belPath, EXT_VMAX)
    \/ endsWith(belPath, EXT_BSZ)
    \/ (endsWith(belPath, EXT_ZIP) /\ ~endsWith(parentPath, DOWNLOAD_DIR))

\* the paths waiting to be processed: queued by the dispatcher or by the loop
Waiting(fq, rq) == fq.pathMap \cup rq.pathMap

\* handleFileAction(watchid, dir, filename, action, oldFilename), lines
\* 179-218, in the two steps another thread can tell apart.  The first is
\* the callback's reads of should_stop_ (line 184, and line 204 on the
\* Add/Modified branch), both finding it false: a read that finds it true
\* returns with nothing changed, which is no step.  From then on the call
\* looks at should_stop_ no more; fpc = "entered" is the watcher thread
\* between its last read and its push, where it may wait for
\* fileQueueMutex_ / unfileQueueMutex_ while stop() or the loop runs.
handleFileActionEnter ==
    /\ fpc = "idle"
    /\ ~should_stop_
    /\ fpc' = "entered"
    /\ UNCHANGED <<arg, result>>
    /\ UNCHANGED <<pvars, qvars>>

\* The second step is the rest of the call: the tests of lines 186-190 and
\* 200-206 on the event it was given, and the contains-then-push of lines
\* 192-196 / 208-214, which runs under the mutex the loop's drains take too
\* and so is one step for every other thread.  It does not depend on
\* should_stop_.  deleted and deletedInFlight are history, not program state.
handleFileAction(dir, filename, action) ==
    LET actionName == getActionName(action)
        belPath == dir \o filename
        parentPath == dir
        isDelete == actionName = "Delete" /\ endsWith(belPath, EXT_BSZ)
        isAdd == actionName = "Add" \/ actionName = "Modified"
    IN /\ fpc = "entered"
       /\ fpc' = "idle"
       /\ unfileQueue' =
            IF isDelete /\ ~contains(unfileQueue, belPath)
            THEN push(unfileQueue, belPath).q
            ELSE unfileQueue
       /\ fileQueue' =
            IF isAdd /\ isQueued(belPath, parentPath) /\ ~contains(fileQueue, belPath)
            THEN push(fileQueue, belPath).q
            ELSE fileQueue
       /\ deleted' =
            IF isDelete /\ belPath \in Waiting(fileQueue, renderQueue)
            THEN deleted \cup {belPath}
            ELSE IF isAdd THEN deleted \ {belPath} ELSE deleted
       /\ deletedInFlight' =
            (deletedInFlight \/ (isDelete /\ belPath \in Range(inflight)))
       /\ UNCHANGED <<should_stop_, renderQueue, renderUnqueue, active_render, pc,
                      engineScene, inflight, errored, stopRequested>>
       /\ UNCHANGED <<written, qvars, arg, result>>

\* UpdateListener::stop(), called by the signal handler sigend
stop ==
    /\ should_stop_' = TRUE
    /\ UNCHANGED <<fileQueue, unfileQueue, renderQueue, renderUnqueue, active_render,
                   pc, engineScene, inflight, errored, stopRequested, deleted, deletedInFlight>>
    /\ UNCHANGED <<written, qvars, fvars>>

-----------------------------------------------------------------------------
(* The watch loop of DL_main, one action per step that another thread can   *)
(* interleave with: pc is "clear" (line 408), "drainAdd" (411), "drainRemove"*)
(* (420), "decide" (436) or "convert" (inside convertVmaxToBella, line 462). *)

\* while (src.pop(path)) dst.push(path);  src.clear();
RECURSIVE drain(_, _)
drain(src, dst) ==
    LET r == pop(src)
    IN IF r.ret
       THEN drain(r.q, push(dst, r.out).q)
       ELSE [src |-> clear(r.q), dst |-> dst]

\* a compare-exchange that stores without comparing
exchangeAlways(obj, expected, desired) == [ok |-> TRUE, obj |-> desired]

\* std::atomic<bool>::compare_exchange_strong(expected, desired)
compare_exchange_strong(obj, expected, desired) ==
    IF obj = expected
    THEN [ok |-> TRUE, obj |-> desired]
    ELSE [ok |-> FALSE, obj |-> obj]

\* lines 465-474: pop every delete; stop the engine when the path equals
\* currentRender, else unqueue the path
RECURSIVE cancelDeletes(_, _, _, _, _)
cancelDeletes(unq, rq, ar, stopCalled, currentRender) ==
    LET r == pop(unq)
    IN IF ~r.ret
       THEN [renderUnqueue |-> r.q, renderQueue |-> rq, active_render |-> ar,
             stopCalled |-> stopCalled]
       ELSE IF r.out = currentRender
       THEN cancelDeletes(r.q, rq, FALSE, TRUE, currentRender)
       ELSE IF contains(rq, r.out)
       THEN cancelDeletes(r.q, remove(rq, r.out).q, ar, stopCalled, currentRender)
       ELSE cancelDeletes(r.q, rq, ar, stopCalled, currentRender)

\* lines 408-410
LoopClear ==
    /\ pc = "clear"
    /\ renderUnqueue' = IF empty(renderQueue) THEN clear(renderUnqueue) ELSE renderUnqueue
    /\ pc' = "drainAdd"
    /\ UNCHANGED <<should_stop_, fileQueue, unfileQueue, renderQueue, active_render,
                   engineScene, inflight, errored, stopRequested, deleted, deletedInFlight>>
    /\ UNCHANGED <<written, qvars, fvars>>

\* lines 411-418, under fileQueueMutex
LoopDrainAdd ==
    /\ pc = "drainAdd"
    /\ LET d == drain(fileQueue, renderQueue)
       IN /\ fileQueue' = d.src
          /\ renderQueue' = d.dst
    /\ pc' = "drainRemove"
    /\ UNCHANGED <<should_stop_, unfileQueue, renderUnqueue, active_render,
                   engineScene, inflight, errored, stopRequested, deleted, deletedInFlight>>
    /\ UNCHANGED <<written, qvars, fvars>>

\* lines 420-427, under unfileQueueMutex
LoopDrainRemove ==
    /\ pc = "drainRemove"
    /\ LET d == drain(unfileQueue, renderUnqueue)
       IN /\ unfileQueue' = d.src
          /\ renderUnqueue' = d.dst
    /\ pc' = "decide"
    /\ UNCHANGED <<should_stop_, fileQueue, renderQueue, active_render,
                   engineScene, inflight, errored, stopRequested, deleted, deletedInFlight>>
    /\ UNCHANGED <<written, qvars, fvars>>

\* lines 436-476 when renderQueue is empty, then the sleep of line 484
LoopIdle ==
    /\ pc = "decide"
    /\ empty(renderQueue)
    /\ pc' = "clear"
    /\ UNCHANGED <<should_stop_, fileQueue, unfileQueue, renderQueue, renderUnqueue,
                   active_render, engineScene, inflight, errored, stopRequested, deleted, deletedInFlight>>
    /\ UNCHANGED <<written, qvars, fvars>>

\* lines 450-463: the compare-exchange succeeds
LoopAcquire ==
    /\ pc = "decide"
    /\ ~empty(renderQueue)
    /\ LET cas == compare_exchange_strong(active_render, FALSE, TRUE)
           r == pop(renderQueue)
           belPath == r.out
       IN /\ cas.ok
          /\ active_render' = cas.obj
          /\ renderQueue' = r.q
          /\ deleted' = deleted \cap Waiting(fileQueue, r.q)
          /\ IF endsWith(belPath, EXT_BSZ)
             THEN /\ engineScene' = belPath
                  /\ inflight' = Append(inflight, belPath)
                  /\ errored' = FALSE
                  /\ deletedInFlight' = FALSE
                  /\ pc' = "clear"
             ELSE IF endsWith(belPath, EXT_VMAX)
             THEN /\ pc' = "convert"
                  /\ UNCHANGED <<engineScene, inflight, errored, deletedInFlight>>
             ELSE /\ pc' = "clear"
                  /\ UNCHANGED <<engineScene, inflight, errored, deletedInFlight>>
    /\ UNCHANGED <<should_stop_, fileQueue, unfileQueue, renderUnqueue, stopRequested>>
    /\ UNCHANGED <<written, qvars, fvars>>

\* line 462: convertVmaxToBella returns; the Scene it returns is a discarded
\* temporary (Scene::write is called at line 379 only, in the --input
\* branch), and the loop goes on to the sleep
LoopConverted ==
    /\ pc = "convert"
    /\ pc' = "clear"
    /\ written' = written
    /\ UNCHANGED <<should_stop_, fileQueue, unfileQueue, renderQueue, renderUnqueue,
                   active_render, engineScene, inflight, errored, stopRequested, deleted, deletedInFlight>>
    /\ UNCHANGED <<qvars, fvars>>

\* lines 464-475: the compare-exchange fails.  currentRender is the local
\* declared at line 448, default-constructed in every iteration and assigned
\* only in the other branch.
LoopCancel ==
    /\ pc = "decide"
    /\ ~empty(renderQueue)
    /\ LET cas == compare_exchange_strong(active_render, FALSE, TRUE)
           currentRender == EmptyStr
           c == cancelDeletes(renderUnqueue, renderQueue, cas.obj, FALSE, currentRender)
       IN /\ ~cas.ok
          /\ renderUnqueue' = c.renderUnqueue
          /\ renderQueue' = c.renderQueue
          /\ active_render' = c.active_render
          /\ stopRequested' = (stopRequested \/ c.stopCalled)
          /\ deleted' = deleted \cap Waiting(fileQueue, c.renderQueue)
    /\ pc' = "clear"
    /\ UNCHANGED <<should_stop_, fileQueue, unfileQueue, engineScene, inflight, errored,
                   deletedInFlight>>
    /\ UNCHANGED <<written, qvars, fvars>>

-----------------------------------------------------------------------------
(* MyEngineObserver: callbacks the engine delivers on its callback thread   *)
(* for a render started by engine.start().                                  *)

\* onError: dl::logError only
onError ==
    /\ inflight # << >>
    /\ ~errored
    /\ errored' = TRUE
    /\ UNCHANGED <<should_stop_, fileQueue, unfileQueue, renderQueue, renderUnqueue,
                   active_render, pc, engineScene, inflight, stopRequested, deleted, deletedInFlight>>
    /\ UNCHANGED <<written, qvars, fvars>>

\* an onStopped that does not release the render slot
onStoppedKeepsSlot ==
    /\ inflight # << >>
    /\ inflight' = Tail(inflight)
    /\ errored' = FALSE
    /\ stopRequested' = FALSE
    /\ deletedInFlight' = FALSE
    /\ UNCHANGED <<should_stop_, fileQueue, unfileQueue, renderQueue, renderUnqueue,
                   active_render, pc, engineScene, deleted>>
    /\ UNCHANGED <<written, qvars, fvars>>

\* onStopped: the render in flight has ended
onStopped ==
    /\ inflight # << >>
    /\ inflight' = Tail(inflight)
    /\ active_render' = FALSE
    /\ errored' = FALSE
    /\ stopRequested' = FALSE
    /\ deletedInFlight' = FALSE
    /\ UNCHANGED <<should_stop_, fileQueue, unfileQueue, renderQueue, renderUnqueue,
                   pc, engineScene, deleted>>
    /\ UNCHANGED <<written, qvars, fvars>>

-----------------------------------------------------------------------------
(* Watch mode: the watcher thread reports events on three files of the      *)
(* watched directory while the loop runs and the engine renders.            *)

FileA == <<"a">> \o EXT_BSZ
FileB == <<"b">> \o EXT_BSZ
FileC == <<"c">> \o EXT_VMAX
FileD == <<"d">> \o EXT_ZIP
FileE == <<"e">> \o EXT_TXT
WatchFiles == {FileA, FileB, FileC}
WatchActions == {ActionAdd, ActionDelete}

Next ==
    \/ handleFileActionEnter
    \/ \E filename \in WatchFiles, action \in WatchActions :
          handleFileAction(WATCH_DIR, filename, action)
    \/ LoopClear
    \/ LoopDrainAdd
    \/ LoopDrainRemove
    \/ LoopIdle
    \/ LoopAcquire
    \/ LoopConverted
    \/ LoopCancel
    \/ onError
    \/ onStopped

(* The directories and files of the events the dispatcher alone is given   *)

Dirs == {WATCH_DIR, WATCH_DIR \o DOWNLOAD_DIR}
Files == {FileA, FileC, FileD, FileE}

-----------------------------------------------------------------------------
(* Initial state: the globals of vmaxtui.cpp as constructed, the loop about *)
(* to run its first iteration, and a default-constructed FileQueue.         *)

InitWatch ==
    /\ should_stop_ = FALSE
    /\ fileQueue = EmptyQueue
    /\ unfileQueue = EmptyQueue
    /\ renderQueue = EmptyQueue
    /\ renderUnqueue = EmptyQueue
    /\ active_render = FALSE
    /\ pc = "clear"
    /\ engineScene = EmptyStr
    /\ inflight = << >>
    /\ errored = FALSE
    /\ stopRequested = FALSE
    /\ deleted = {}
    /\ deletedInFlight = FALSE
    /\ written = {}

InitQueue ==
    /\ q = EmptyQueue
    /\ other = EmptyQueue
    /\ calls = << >>
    /\ order = << >>
    /\ scn = 0

\* no function of the converter is being called, and the watcher thread
\* is outside handleFileAction
InitCall ==
    /\ arg = << >>
    /\ result = << >>
    /\ fpc = "idle"

Init == InitWatch /\ InitQueue /\ InitCall

Spec == Init /\ [][Next]_vars

SpecQ == Init /\ [][NextQ]_vars

(* Watch mode with a scene and an archive: the watcher reports events on a  *)
(* .bsz file and on a .zip file of the watched directory; no .vmax file     *)
(* arrives, so the loop never enters convertVmaxToBella.                    *)

ArchiveFiles == {FileA, FileD}

NextArchive ==
    \/ handleFileActionEnter
    \/ \E filename \in ArchiveFiles, action \in WatchActions :
          handleFileAction(WATCH_DIR, filename, action)
    \/ LoopClear
    \/ LoopDrainAdd
    \/ LoopDrainRemove
    \/ LoopIdle
    \/ LoopAcquire
    \/ LoopCancel
    \/ onError
    \/ onStopped

SpecArchive == Init /\ [][NextArchive]_vars

(* Watch mode with render jobs only: the watcher reports Add and Modified   *)
(* events on two .bsz files, the loop keeps iterating (lines 406-485 end in *)
(* a sleep and start over) and the engine ends every render it has started *)
(* with onStopped.                                                          *)

RenderFiles == {FileA, FileB}
RenderActions == {ActionAdd, ActionModified}

LoopStep ==
    \/ LoopClear
    \/ LoopDrainAdd
    \/ LoopDrainRemove
    \/ LoopIdle
    \/ LoopAcquire
    \/ LoopCancel

NextRender ==
    \/ handleFileActionEnter
    \/ \E filename \in RenderFiles, action \in RenderActions :
          handleFileAction(WATCH_DIR, filename, action)
    \/ LoopStep
    \/ onError
    \/ onStopped

SpecRender ==
    /\ Init
    /\ [][NextRender]_vars
    /\ WF_vars(LoopStep)
    /\ WF_vars(onStopped)

-----------------------------------------------------------------------------
(* The voxel decoder of oomer_voxel_vmax.h.                                 *)
(*                                                                          *)
(* A uint32_t is the set of the positions of its 1 bits (0 is the least     *)
(* significant), so that &, ^ and >> are computed on the bit pattern.       *)

WordBits == 32

\* the bit pattern of a non-negative integer below 2^31
Bits(n) == {i \in 0..(WordBits - 2) : (n \div 2^i) % 2 = 1}

\* the integer a bit pattern with no bit above 30 stands for
RECURSIVE Value(_)
Value(w) ==
    IF w = {}
    THEN 0
    ELSE LET i == CHOOSE j \in w : \A k \in w : j >= k
         IN 2^i + Value(w \ {i})

\* the bit pattern written as eight hexadecimal digits, most significant first
Hex32(digits) ==
    {i \in 0..(WordBits - 1) : (digits[8 - (i \div 4)] \div 2^(i % 4)) % 2 = 1}

BitAnd(a, b) == a \cap b
BitXor(a, b) == (a \ b) \cup (b \ a)
ShiftRight(a, k) == {i - k : i \in {j \in a : j >= k}}

\* compactBits with the first fold shifting by 3 instead of 2
compactBitsShift3(n) ==
    LET n0 == BitAnd(n, Hex32(<<4, 9, 2, 4, 9, 2, 4, 9>>))
        n1 == BitAnd(BitXor(n0, ShiftRight(n0, 3)), Hex32(<<12, 3, 0, 12, 3, 0, 12, 3>>))
        n2 == BitAnd(BitXor(n1, ShiftRight(n1, 4)), Hex32(<<0, 15, 0, 0, 15, 0, 0, 15>>))
        n3 == BitAnd(BitXor(n2, ShiftRight(n2, 8)), Hex32(<<0, 0, 15, 15, 0, 0, 15, 15>>))
        n4 == BitAnd(BitXor(n3, ShiftRight(n3, 16)), Hex32(<<0, 0, 0, 0, 15, 15, 15, 15>>))
    IN n4

\* compactBits, lines 199-206: masks 0x49249249, 0xc30c30c3, 0x0f00f00f,
\* 0x00ff00ff, 0x0000ffff
compactBits(n) ==
    LET n0 == BitAnd(n, Hex32(<<4, 9, 2, 4, 9, 2, 4, 9>>))
        n1 == BitAnd(BitXor(n0, ShiftRight(n0, 2)), Hex32(<<12, 3, 0, 12, 3, 0, 12, 3>>))
        n2 == BitAnd(BitXor(n1, ShiftRight(n1, 4)), Hex32(<<0, 15, 0, 0, 15, 0, 0, 15>>))
        n3 == BitAnd(BitXor(n2, ShiftRight(n2, 8)), Hex32(<<0, 0, 15, 15, 0, 0, 15, 15>>))
        n4 == BitAnd(BitXor(n3, ShiftRight(n3, 16)), Hex32(<<0, 0, 0, 0, 15, 15, 15, 15>>))
    IN n4

\* decodeMorton3DOptimized, lines 209-214; the result is <<x, y, z>>
decodeMorton3DOptimized(morton) ==
    <<Value(compactBits(Bits(morton))),
      Value(compactBits(ShiftRight(Bits(morton), 1))),
      Value(compactBits(ShiftRight(Bits(morton), 2)))>>

(* One call of decodeMorton3DOptimized.  The argument is either the Morton  *)
(* interleave of a coordinate triple or a code with a high bit set.         *)

MaxCoord == 31
MortonBits == 30

\* bit i of x goes to bit 3i, of y to bit 3i+1, of z to bit 3i+2
interleave3(x, y, z) ==
    Value({3 * i : i \in Bits(x)} \cup {3 * i + 1 : i \in Bits(y)}
          \cup {3 * i + 2 : i \in Bits(z)})

MortonArgs ==
    {[morton |-> interleave3(x, y, z), from |-> <<x, y, z>>] :
        x \in 0..MaxCoord, y \in 0..MaxCoord, z \in 0..MaxCoord}
    \cup {[morton |-> 2^i, from |-> << >>] : i \in 0..(MortonBits - 1)}
    \cup {[morton |-> 2^(MortonBits - 1) + 2^i, from |-> << >>] : i \in 0..(MortonBits - 2)}

InitMorton ==
    /\ InitWatch
    /\ InitQueue
    /\ arg \in MortonArgs
    /\ result = << >>
    /\ fpc = "call"

DecodeMorton ==
    /\ fpc = "call"
    /\ result' = decodeMorton3DOptimized(arg.morton)
    /\ fpc' = "done"
    /\ UNCHANGED <<arg, pvars, qvars>>

NextMorton == DecodeMorton

SpecMorton == InitMorton /\ [][NextMorton]_vars

-----------------------------------------------------------------------------
(* Assembly of one model from the snapshots of its contents file.  A        *)
(* snapshot is [c, min, ds]: the chunk ID s.id.c, the Morton offset         *)
(* s.st.min[3] and the bytes of s.ds.  VmaxModel::voxels[8][256] is kept as *)
(* one sequence in the order of the emplace_back calls; the bucket          *)
(* [material][color] is the subsequence with that material and palette.     *)

\* conversions to uint8_t and uint16_t
ToUint8(n) == n % 256
ToUint16(n) == n % 65536

\* VmaxVoxel::VmaxVoxel, lines 188-196
VmaxVoxel(x, y, z, material, palette, chunkID, minMorton) ==
    [x |-> ToUint8(x), y |-> ToUint8(y), z |-> ToUint8(z),
     material |-> ToUint8(material), palette |-> ToUint8(palette),
     chunkID |-> ToUint16(chunkID), minMorton |-> ToUint16(minMorton)]

\* decodeVoxels without the test of line 387: every pair emits a voxel
decodeVoxelsKeepZero(dsData, mortonOffset, chunkID) ==
    LET pair(k) ==
            LET i == 2 * (k - 1)
                t == decodeMorton3DOptimized(i \div 2 + mortonOffset)
            IN VmaxVoxel(t[1], t[2], t[3], dsData[i + 1], dsData[i + 2], chunkID,
                         mortonOffset)
    IN [k \in 1..(Len(dsData) \div 2) |-> pair(k)]

\* decodeVoxels, lines 375-401, for a stream of at least one byte: the loop
\* runs for i = 0, 2, ... while i < size - 1
decodeVoxels(dsData, mortonOffset, chunkID) ==
    LET pair(k) ==
            LET i == 2 * (k - 1)
                material == dsData[i + 1]
                color == dsData[i + 2]
                t == decodeMorton3DOptimized(i \div 2 + mortonOffset)
            IN VmaxVoxel(t[1], t[2], t[3], material, color, chunkID, mortonOffset)
        all == [k \in 1..(Len(dsData) \div 2) |-> pair(k)]
    IN SelectSeq(all, LAMBDA v : v.palette # 0)

\* line 379 with an empty stream: size() - 1 wraps to the largest size_t, the
\* loop is entered and reads dsData[0] of an empty vector
decodeVoxelsReadsPastEnd(dsData) == Len(dsData) = 0

\* vmaxChunkInfo, lines 430-469
vmaxChunkInfo(snapshot) ==
    LET t == decodeMorton3DOptimized(snapshot.min)
    IN [id |-> snapshot.c, mortoncode |-> snapshot.min,
        voxelOffsetX |-> t[1], voxelOffsetY |-> t[2], voxelOffsetZ |-> t[3]]

\* vmaxVoxelInfo, lines 476-526
vmaxVoxelInfo(datastream, chunkID, minMorton) ==
    LET allModelVoxels == decodeVoxels(datastream, minMorton, ToUint16(chunkID))
        t == decodeMorton3DOptimized(chunkID)
        model_256x256x256_x == t[1] * 8
        model_256x256x256_y == t[2] * 8
        model_256x256x256_z == t[3] * 8
        one_voxel(v) == VmaxVoxel(model_256x256x256_x + v.x,
                                  model_256x256x256_y + v.y,
                                  model_256x256x256_z + v.z,
                                  v.material, v.palette, v.chunkID, v.minMorton)
    IN [k \in 1..Len(allModelVoxels) |-> one_voxel(allModelVoxels[k])]

\* VmaxModel::addVoxel, lines 247-251
addVoxel(voxels, x, y, z, material, color, chunk, chunkMin) ==
    IF material >= 0 /\ material < 8 /\ color > 0 /\ color < 256
    THEN Append(voxels, VmaxVoxel(x, y, z, material, color, chunk, chunkMin))
    ELSE voxels

\* VmaxModel::getVoxels, lines 264-270
getVoxels(voxels, material, color) ==
    IF material >= 0 /\ material < 8 /\ color > 0 /\ color < 256
    THEN SelectSeq(voxels, LAMBDA v : v.material = material /\ v.palette = color)
    ELSE << >>

\* lines 840-842: every voxel of the snapshot is added to the model
RECURSIVE addVoxels(_, _, _)
addVoxels(voxels, xvoxels, chunkInfo) ==
    IF xvoxels = << >>
    THEN voxels
    ELSE LET voxel == Head(xvoxels)
         IN addVoxels(addVoxel(voxels, voxel.x, voxel.y, voxel.z, voxel.material,
                               voxel.palette, chunkInfo.id, chunkInfo.mortoncode),
                      Tail(xvoxels), chunkInfo)

MaxSnapshots == 2

ChunkIDs == {0, 1, 6}
MinMortons == {0, 3}
DataStreams == {<<0, 5>>, <<0, 5, 1, 7>>, <<0, 0, 2, 9>>, <<8, 5, 7, 1>>, <<0, 5, 1>>, << >>}
Snapshots == [c : ChunkIDs, min : MinMortons, ds : DataStreams]

InitAssemble ==
    /\ InitWatch
    /\ InitQueue
    /\ \E n \in 0..MaxSnapshots : arg \in [1..n -> Snapshots]
    /\ result = << >>
    /\ fpc = [next |-> 0, fault |-> FALSE]

\* one iteration of the loop of lines 824-843; fpc.next counts the snapshots
\* consumed, fpc.fault says that the process has read past the end of a stream
AssembleSnapshot ==
    /\ ~fpc.fault
    /\ fpc.next < Len(arg)
    /\ LET plist_snapshot == arg[fpc.next + 1]
           chunkInfo == vmaxChunkInfo(plist_snapshot)
       IN IF decodeVoxelsReadsPastEnd(plist_snapshot.ds)
          THEN /\ fpc' = [fpc EXCEPT !.fault = TRUE]
               /\ result' = result
          ELSE /\ fpc' = [fpc EXCEPT !.next = fpc.next + 1]
               /\ result' = addVoxels(result,
                                      vmaxVoxelInfo(plist_snapshot.ds, chunkInfo.id,
                                                    chunkInfo.mortoncode),
                                      chunkInfo)
    /\ UNCHANGED <<arg, pvars, qvars>>

NextAssemble == AssembleSnapshot

SpecAssemble == InitAssemble /\ [][NextAssemble]_vars

-----------------------------------------------------------------------------
(* One call of decodeVoxels, oomer_voxel_vmax.h lines 375-401                *)

MaxStreamLen == 5

StreamBytes == {0, 1, 5}
Streams == UNION {[1..n -> StreamBytes] : n \in 0..MaxStreamLen}
Offsets == {0, 3, 32766}
DecodeChunkIDs == {0, 6}

\* the indices of dsData read by lines 380-381 in a loop that stops at
\* i >= size - 1, for a stream of at least one byte
decodeVoxelsReads(dsData) ==
    UNION {{i, i + 1} : i \in {j \in 0..(Len(dsData) - 2) : j % 2 = 0}}

InitDecode ==
    /\ InitWatch
    /\ InitQueue
    /\ arg \in [ds : Streams, b : Offsets, c : DecodeChunkIDs]
    /\ result = [voxels |-> << >>, read |-> {}]
    /\ fpc = "call"

\* the call on a stream of at least one byte returns
DecodeChunk ==
    /\ fpc = "call"
    /\ ~decodeVoxelsReadsPastEnd(arg.ds)
    /\ result' = [voxels |-> decodeVoxels(arg.ds, arg.b, arg.c),
                  read |-> decodeVoxelsReads(arg.ds)]
    /\ fpc' = "returned"
    /\ UNCHANGED <<arg, pvars, qvars>>

\* the call on an empty stream: the first iteration reads dsData[0] and
\* dsData[1] of a vector of no elements; whatever bytes it finds there, the
\* loop goes on reading past the end and the call does not return
DecodeChunkPastEnd ==
    /\ fpc = "call"
    /\ decodeVoxelsReadsPastEnd(arg.ds)
    /\ \E material \in StreamBytes, color \in StreamBytes :
          result' = [voxels |-> decodeVoxels(<<material, color>>, arg.b, arg.c),
                     read |-> {0, 1}]
    /\ fpc' = "fault"
    /\ UNCHANGED <<arg, pvars, qvars>>

NextDecode == DecodeChunk \/ DecodeChunkPastEnd

SpecDecode == InitDecode /\ [][NextDecode]_vars

-----------------------------------------------------------------------------
(* The material of one (material, color) bucket, addModelToScene lines      *)
(* 624-648.  The doubles of VmaxMaterial are counted in units of            *)
(* 1/(10 * 2^27), in which 0.1 is 2^27 and the float literal 0.1f, which is *)
(* 13421773 / 2^27, is 10 * 13421773.                                       *)

MaterialCount == 8
OneTenth == 134217728
FloatOneTenth == 134217730

\* the chain of tests with the glass test ahead of the liquid test
materialTypeGlassFirst(material, a, metalness, transmission, emission) ==
    IF material = 6 \/ a < 255 THEN "glass"
    ELSE IF material = 7 THEN "liquid"
    ELSE IF metalness > FloatOneTenth THEN "metal"
    ELSE IF transmission > 0 THEN "dielectric"
    ELSE IF emission > 0 THEN "emitter"
    ELSE "plastic"

\* belMaterial["type"] as set by lines 624-648; a is vmaxPalette[color-1].a,
\* the other three are fields of vmaxMaterial[material]
materialType(material, a, metalness, transmission, emission) ==
    IF material = 7 THEN "liquid"
    ELSE IF material = 6 \/ a < 255 THEN "glass"
    ELSE IF metalness > FloatOneTenth THEN "metal"
    ELSE IF transmission > 0 THEN "dielectric"
    ELSE IF emission > 0 THEN "emitter"
    ELSE "plastic"

Alphas == {0, 254, 255}
Metalnesses == {0, OneTenth, OneTenth + 1, FloatOneTenth, FloatOneTenth + 1, 5 * OneTenth}
Transmissions == {0, 1, 5 * OneTenth}
Emissions == {0, 10 * OneTenth}

InitMaterial ==
    /\ InitWatch
    /\ InitQueue
    /\ arg \in [material : 0..(MaterialCount - 1), a : Alphas, metalness : Metalnesses,
                transmission : Transmissions, emission : Emissions]
    /\ result = << >>
    /\ fpc = "call"

SelectMaterial ==
    /\ fpc = "call"
    /\ result' = materialType(arg.material, arg.a, arg.metalness, arg.transmission,
                              arg.emission)
    /\ fpc' = "done"
    /\ UNCHANGED <<arg, pvars, qvars>>

NextMaterial == SelectMaterial

SpecMaterial == InitMaterial /\ [][NextMaterial]_vars

-----------------------------------------------------------------------------
(* The conversion of one model of scene.json, convertVmaxToBella lines      *)
(* 793-850 and its addModelToScene call of line 857.  A file is a record:   *)
(* exists says that it is there; a PNG has decodes (stbi_load succeeds) and *)
(* the pixels of its first row.  The contents file is abstracted to the set *)
(* of palette indices its voxels use, all of material index 0.              *)

PaletteWidth == 256

Pixel == [r |-> 0, g |-> 0, b |-> 0, a |-> 255]
PngFiles ==
    {[exists |-> FALSE, decodes |-> FALSE, pixels |-> << >>],
     [exists |-> TRUE, decodes |-> FALSE, pixels |-> << >>],
     [exists |-> TRUE, decodes |-> TRUE, pixels |-> [i \in 1..1 |-> Pixel]],
     [exists |-> TRUE, decodes |-> TRUE, pixels |-> [i \in 1..PaletteWidth |-> Pixel]]}
ContentsFiles == [exists : BOOLEAN, colors : {{}, {1}, {2}, {1, 2}}]
MaterialsFiles == [exists : BOOLEAN]

\* read256x1PaletteFromPNG, lines 147-173: an empty vector when stbi_load
\* returns null, else one entry per pixel of the row whatever its width
read256x1PaletteFromPNG(file) ==
    IF ~(file.exists /\ file.decodes)
    THEN << >>
    ELSE [i \in 1..Len(file.pixels) |-> file.pixels[i]]

\* readPlist, lines 542-644: std::filesystem::file_size throws when the file
\* does not exist
readPlistThrows(file) == ~file.exists

InitConvert ==
    /\ InitWatch
    /\ InitQueue
    /\ arg \in [png : PngFiles, contents : ContentsFiles, materials : MaterialsFiles]
    /\ result = [vmaxPalettes |-> << >>, allModels |-> << >>, vmaxMaterials |-> << >>,
                 canonical |-> << >>]
    /\ fpc = "palette"

\* lines 802-805: the palette is pushed onto vmaxPalettes, and it is
\* vmaxPalettes, the vector of palettes, that line 805 tests for emptiness
LoadPalette ==
    /\ fpc = "palette"
    /\ LET vmaxPalettes == Append(result.vmaxPalettes, read256x1PaletteFromPNG(arg.png))
       IN /\ result' = [result EXCEPT !.vmaxPalettes = vmaxPalettes]
          /\ fpc' = IF vmaxPalettes = << >> THEN "thrown" ELSE "contents"
    /\ UNCHANGED <<arg, pvars, qvars>>

\* lines 808-809
ReadContents ==
    /\ fpc = "contents"
    /\ fpc' = IF readPlistThrows(arg.contents) THEN "thrown" ELSE "snapshots"
    /\ UNCHANGED <<arg, result, pvars, qvars>>

\* lines 816-844
AssembleModel ==
    /\ fpc = "snapshots"
    /\ result' = [result EXCEPT !.allModels = Append(@, arg.contents.colors)]
    /\ fpc' = "materials"
    /\ UNCHANGED <<arg, pvars, qvars>>

\* lines 847-849
ReadMaterials ==
    /\ fpc = "materials"
    /\ IF readPlistThrows(arg.materials)
       THEN /\ fpc' = "thrown"
            /\ result' = result
       ELSE /\ fpc' = "compose"
            /\ result' = [result EXCEPT !.vmaxMaterials = Append(@, "materials")]
    /\ UNCHANGED <<arg, pvars, qvars>>

\* line 857, addModelToScene: the canonical node is created, and every used
\* colour reads vmaxPalette[color-1] (lines 629, 651-654).  A read past the
\* end of the palette is undefined: the process faults or goes on with
\* whatever bytes it finds.
ComposeModel ==
    /\ fpc = "compose"
    /\ LET vmaxPalette == result.vmaxPalettes[1]
           eachModel == result.allModels[1]
       IN /\ result' = [result EXCEPT !.canonical = Append(@, eachModel)]
          /\ IF \A color \in eachModel : color - 1 < Len(vmaxPalette)
             THEN fpc' = "built"
             ELSE fpc' \in {"built", "fault"}
    /\ UNCHANGED <<arg, pvars, qvars>>

NextConvert ==
    \/ LoadPalette
    \/ ReadContents
    \/ AssembleModel
    \/ ReadMaterials
    \/ ComposeModel

SpecConvert == InitConvert /\ [][NextConvert]_vars

-----------------------------------------------------------------------------
(* The instance matrices of one snapshot: the snapshot is assembled into a  *)
(* model (vmaxtui.cpp lines 824-843) and addModelToScene                     *)
(* (vmaxtui.cpp lines 611-684) emits one matrix for every voxel of every    *)
(* (material, color) bucket in use.  result.xforms is the translation row   *)
(* of the matrices of each bucket.                                          *)

InstanceChunkIDs == {0, 1, 6, 73, 511}
InstanceBytes == {0, 5, 9}
InstanceStreams == UNION {[1..n -> InstanceBytes] : n \in {2, 4}}

\* VmaxModel::getUsedMaterialsAndColors, oomer_voxel_vmax.h lines 284-296
getUsedMaterialsAndColors(voxels) ==
    {mc \in (0..(MaterialCount - 1)) \X (1..(PaletteWidth - 1)) :
        getVoxels(voxels, mc[1], mc[2]) # << >>}

\* a composer whose world offset is 32 per chunk step
instanceTranslation32(eachvoxel) ==
    LET t == decodeMorton3DOptimized(eachvoxel.chunkID)
    IN <<eachvoxel.x + t[1] * 32, eachvoxel.y + t[2] * 32, eachvoxel.z + t[3] * 32>>

\* vmaxtui.cpp lines 670-683: the last row of the matrix of one voxel
instanceTranslation(eachvoxel) ==
    LET t == decodeMorton3DOptimized(eachvoxel.chunkID)
        worldOffsetX == t[1] * 24
        worldOffsetY == t[2] * 24
        worldOffsetZ == t[3] * 24
    IN <<eachvoxel.x + worldOffsetX, eachvoxel.y + worldOffsetY,
         eachvoxel.z + worldOffsetZ>>

\* vmaxtui.cpp lines 662-684: the matrices of one bucket
xformsArray(voxelsOfType) ==
    [k \in 1..Len(voxelsOfType) |-> instanceTranslation(voxelsOfType[k])]

InitInstance ==
    /\ InitWatch
    /\ InitQueue
    /\ arg \in [c : InstanceChunkIDs, min : Offsets, ds : InstanceStreams]
    /\ result = [voxels |-> << >>, xforms |-> << >>]
    /\ fpc = "snapshot"

\* vmaxtui.cpp lines 824-843 for the one snapshot
InstanceAssemble ==
    /\ fpc = "snapshot"
    /\ LET chunkInfo == vmaxChunkInfo(arg)
       IN result' = [voxels |-> addVoxels(<< >>,
                                          vmaxVoxelInfo(arg.ds, chunkInfo.id,
                                                        chunkInfo.mortoncode),
                                          chunkInfo),
                     xforms |-> << >>]
    /\ fpc' = "model"
    /\ UNCHANGED <<arg, pvars, qvars>>

\* vmaxtui.cpp lines 611-684
InstanceCompose ==
    /\ fpc = "model"
    /\ result' = [result EXCEPT !.xforms =
                     [mc \in getUsedMaterialsAndColors(result.voxels) |->
                         xformsArray(getVoxels(result.voxels, mc[1], mc[2]))]]
    /\ fpc' = "instanced"
    /\ UNCHANGED <<arg, pvars, qvars>>

NextInstance == InstanceAssemble \/ InstanceCompose

SpecInstance == InitInstance /\ [][NextInstance]_vars

-----------------------------------------------------------------------------
(* The decompression loop of readPlist, oomer_voxel_vmax.h lines 557-594.   *)
(* arg is the compressed file: its size and the size of the data it decodes *)
(* to, 0 for a file the codec cannot decode.  result is outAllocatedSize    *)
(* and decodedSize.                                                         *)

MaxRawFileSize == 6
MaxAllocation == 4096

DecodedSizes == {0, 1, 8, 16, 17, 48, 100, 200}

\* lzfse_decode_buffer as the loop uses it (lines 579-581): 0 for a failure,
\* the size of the buffer when the data does not fit, else the size of the
\* data
lzfse_decode_buffer(dst_size, file) ==
    IF file.decoded = 0 \/ dst_size = 0
    THEN 0
    ELSE IF file.decoded > dst_size THEN dst_size ELSE file.decoded

InitDecompress ==
    /\ InitWatch
    /\ InitQueue
    /\ arg \in [rawFileSize : 0..MaxRawFileSize, decoded : DecodedSizes]
    /\ result = [outAllocatedSize |-> 0, decodedSize |-> 0]
    /\ fpc = "start"

\* lines 558-561: outAllocatedSize = rawFileSize * 8
DecompressStart ==
    /\ fpc = "start"
    /\ result' = [outAllocatedSize |-> arg.rawFileSize * 8, decodedSize |-> 0]
    /\ fpc' = "loop"
    /\ UNCHANGED <<arg, pvars, qvars>>

\* one iteration of the loop of lines 570-588, then lines 590-594 when the
\* loop is left; outBuffer.resize throws when the allocation cannot be had
DecompressTry ==
    /\ fpc = "loop"
    /\ LET decodedSize == lzfse_decode_buffer(result.outAllocatedSize, arg)
       IN IF decodedSize = 0 \/ decodedSize = result.outAllocatedSize
          THEN /\ result' = [outAllocatedSize |-> result.outAllocatedSize * 2,
                             decodedSize |-> decodedSize]
               /\ fpc' = IF result.outAllocatedSize * 2 > MaxAllocation
                         THEN "bad_alloc" ELSE "loop"
          ELSE /\ result' = [result EXCEPT !.decodedSize = decodedSize]
               /\ fpc' = IF decodedSize = 0 THEN "failure" ELSE "success"
    /\ UNCHANGED <<arg, pvars, qvars>>

NextDecompress == DecompressStart \/ DecompressTry

SpecDecompress == InitDecompress /\ [][NextDecompress]_vars

-----------------------------------------------------------------------------
(* The hand-off between the watcher thread and the render loop, one mutex   *)
(* operation at a time.  result is the sequence of mutexes each thread      *)
(* holds, in the order it took them; arg is the position of the watcher     *)
(* thread inside handleFileAction; fpc is the position of the loop inside   *)
(* the drain of pc (lines 411-418 or 420-427), its local `path`, and the    *)
(* paths pushed by the dispatcher that no drain has pushed to the loop's    *)
(* queue yet.                                                               *)

Threads == {"watcher", "loop"}

\* vmaxtui.cpp lines 225-226 and FileQueue::mutex of the four queues
DispatcherMutexes == {"fileQueueMutex", "unfileQueueMutex"}
QueueMutexes == {"fileQueue.mutex", "unfileQueue.mutex", "renderQueue.mutex",
                 "renderUnqueue.mutex"}

\* the mutex and the queues of one side of the hand-off
Sides == {"drainAdd", "drainRemove"}
mutexOfSide(side) == IF side = "drainAdd" THEN "fileQueueMutex" ELSE "unfileQueueMutex"
srcMutex(side) == IF side = "drainAdd" THEN "fileQueue.mutex" ELSE "unfileQueue.mutex"
dstMutex(side) == IF side = "drainAdd" THEN "renderQueue.mutex" ELSE "renderUnqueue.mutex"
srcOf(side) == IF side = "drainAdd" THEN fileQueue ELSE unfileQueue
dstOf(side) == IF side = "drainAdd" THEN renderQueue ELSE renderUnqueue

mutexHeld(held, m) == \E t \in Threads : m \in Range(held[t])

\* a lock_guard that does not wait for the mutex
lock_guardNoWait(held, t, m) ==
    [ok |-> TRUE, held |-> [held EXCEPT ![t] = Append(@, m)]]

\* a scope exit that releases the mutex taken first
unlockOldest(held, t) == [held EXCEPT ![t] = Tail(@)]

\* std::lock_guard<std::mutex> lock(m): the thread goes on when no thread
\* holds m
lock_guard(held, t, m) ==
    [ok |-> ~mutexHeld(held, m), held |-> [held EXCEPT ![t] = Append(@, m)]]

\* the end of the scope of the lock_guard taken last
unlock(held, t) == [held EXCEPT ![t] = SubSeq(@, 1, Len(@) - 1)]

HandoffFiles == {FileA, FileC}

\* the watcher thread outside handleFileAction; stopped is the value of
\* should_stop_ that the latest call read at line 184, pushed says whether
\* the call in progress has pushed its path
WatcherIdle == [pc |-> "idle", belPath |-> EmptyStr, parentPath |-> EmptyStr,
                side |-> "drainAdd", stopped |-> FALSE, pushed |-> FALSE]
LoopOutside == [at |-> "lock", path |-> EmptyStr,
                pending |-> [side \in Sides |-> {}]]

InitHandoff ==
    /\ InitWatch
    /\ InitQueue
    /\ arg = WatcherIdle
    /\ result = [t \in Threads |-> << >>]
    /\ fpc = LoopOutside

hrest == <<should_stop_, active_render, engineScene, inflight, errored,
           stopRequested, deleted, deletedInFlight, written, qvars>>

\* a callback that does not read should_stop_ at line 184
WatcherEventOnNoStop(dirs, files, actions) ==
    /\ arg.pc = "idle"
    /\ \E dir \in dirs, filename \in files, action \in actions :
          LET actionName == getActionName(action)
              belPath == dir \o filename
              call == [WatcherIdle EXCEPT !.belPath = belPath, !.parentPath = dir,
                                          !.stopped = should_stop_]
          IN arg' = IF actionName = "Delete" /\ endsWith(belPath, EXT_BSZ)
                    THEN [call EXCEPT !.pc = "lock", !.side = "drainRemove"]
                    ELSE IF actionName = "Add" \/ actionName = "Modified"
                    THEN [call EXCEPT !.pc = "recheck"]
                    ELSE WatcherIdle
    /\ UNCHANGED <<fileQueue, unfileQueue, renderQueue, renderUnqueue, pc, result, fpc, hrest>>

\* handleFileAction is called with an event on one of files in one of dirs:
\* line 184 returns when should_stop_ is set; else lines 186-190 lead a
\* Delete of a .bsz path to the lock_guard of line 192, line 200 leads an Add
\* or Modified to the second read of should_stop_, and any other event
\* returns
WatcherEventOn(dirs, files, actions) ==
    /\ arg.pc = "idle"
    /\ \E dir \in dirs, filename \in files, action \in actions :
          LET actionName == getActionName(action)
              belPath == dir \o filename
              call == [WatcherIdle EXCEPT !.belPath = belPath, !.parentPath = dir]
          IN arg' = IF should_stop_
                    THEN [WatcherIdle EXCEPT !.stopped = TRUE]
                    ELSE IF actionName = "Delete" /\ endsWith(belPath, EXT_BSZ)
                    THEN [call EXCEPT !.pc = "lock", !.side = "drainRemove"]
                    ELSE IF actionName = "Add" \/ actionName = "Modified"
                    THEN [call EXCEPT !.pc = "recheck"]
                    ELSE WatcherIdle
    /\ UNCHANGED <<fileQueue, unfileQueue, renderQueue, renderUnqueue, pc, result, fpc, hrest>>

\* an event of watch mode
WatcherEvent == WatcherEventOn({WATCH_DIR}, HandoffFiles, WatchActions)

\* lines 204-206: the second read of should_stop_ and the test of the suffix
\* and of the directory
WatcherRecheck ==
    /\ arg.pc = "recheck"
    /\ arg' = IF should_stop_
              THEN [WatcherIdle EXCEPT !.stopped = arg.stopped]
              ELSE IF isQueued(arg.belPath, arg.parentPath)
              THEN [arg EXCEPT !.pc = "lock", !.side = "drainAdd"]
              ELSE WatcherIdle
    /\ UNCHANGED <<fileQueue, unfileQueue, renderQueue, renderUnqueue, pc, result, fpc, hrest>>

\* lines 192 and 208
WatcherLock ==
    /\ arg.pc = "lock"
    /\ LET l == lock_guard(result, "watcher", mutexOfSide(arg.side))
       IN /\ l.ok
          /\ result' = l.held
    /\ arg' = [arg EXCEPT !.pc = "contains"]
    /\ UNCHANGED <<fileQueue, unfileQueue, renderQueue, renderUnqueue, pc, fpc, hrest>>

\* the lock_guard of FileQueue::contains (line 115) or FileQueue::push
\* (line 66), called at lines 193-194 and 209-210
WatcherEnter ==
    /\ arg.pc \in {"contains", "push"}
    /\ LET l == lock_guard(result, "watcher", srcMutex(arg.side))
       IN /\ l.ok
          /\ result' = l.held
    /\ arg' = [arg EXCEPT !.pc = IF arg.pc = "contains" THEN "in_contains" ELSE "in_push"]
    /\ UNCHANGED <<fileQueue, unfileQueue, renderQueue, renderUnqueue, pc, fpc, hrest>>

\* FileQueue::contains returns, lines 193 and 209
WatcherContains ==
    /\ arg.pc = "in_contains"
    /\ result' = unlock(result, "watcher")
    /\ arg' = [arg EXCEPT !.pc = IF contains(srcOf(arg.side), arg.belPath)
                                  THEN "unlock" ELSE "push"]
    /\ UNCHANGED <<fileQueue, unfileQueue, renderQueue, renderUnqueue, pc, fpc, hrest>>

\* a push whose Add branch also withdraws the path from the remove queue
WatcherPushAddUnqueues ==
    /\ arg.pc = "in_push"
    /\ LET r == push(srcOf(arg.side), arg.belPath)
       IN /\ IF arg.side = "drainAdd"
             THEN fileQueue' = r.q /\ unfileQueue' = remove(unfileQueue, arg.belPath).q
             ELSE unfileQueue' = r.q /\ fileQueue' = fileQueue
          /\ fpc' = IF r.ret
                    THEN [fpc EXCEPT !.pending[arg.side] = @ \cup {arg.belPath}]
                    ELSE fpc
          /\ arg' = [arg EXCEPT !.pc = "unlock", !.pushed = r.ret]
    /\ result' = unlock(result, "watcher")
    /\ UNCHANGED <<renderQueue, renderUnqueue, pc, hrest>>

\* FileQueue::push returns, lines 194 and 210
WatcherPush ==
    /\ arg.pc = "in_push"
    /\ LET r == push(srcOf(arg.side), arg.belPath)
       IN /\ IF arg.side = "drainAdd"
             THEN fileQueue' = r.q /\ unfileQueue' = unfileQueue
             ELSE unfileQueue' = r.q /\ fileQueue' = fileQueue
          /\ fpc' = IF r.ret
                    THEN [fpc EXCEPT !.pending[arg.side] = @ \cup {arg.belPath}]
                    ELSE fpc
          /\ arg' = [arg EXCEPT !.pc = "unlock", !.pushed = r.ret]
    /\ result' = unlock(result, "watcher")
    /\ UNCHANGED <<renderQueue, renderUnqueue, pc, hrest>>

\* the scopes of lines 191-197 and 207-215 end
WatcherUnlock ==
    /\ arg.pc = "unlock"
    /\ result' = unlock(result, "watcher")
    /\ arg' = [WatcherIdle EXCEPT !.stopped = arg.stopped]
    /\ UNCHANGED <<fileQueue, unfileQueue, renderQueue, renderUnqueue, pc, fpc, hrest>>

\* vmaxtui.cpp lines 412 and 421
DrainLock ==
    /\ pc \in Sides
    /\ fpc.at = "lock"
    /\ LET l == lock_guard(result, "loop", mutexOfSide(pc))
       IN /\ l.ok
          /\ result' = l.held
    /\ fpc' = [fpc EXCEPT !.at = "pop"]
    /\ UNCHANGED <<fileQueue, unfileQueue, renderQueue, renderUnqueue, pc, arg, hrest>>

\* the lock_guard of FileQueue::pop (line 77), FileQueue::push (line 66) or
\* FileQueue::clear (line 133), called at lines 414-417 and 423-426
DrainEnter ==
    /\ pc \in Sides
    /\ fpc.at \in {"pop", "push", "clear"}
    /\ LET l == lock_guard(result, "loop",
                           IF fpc.at = "push" THEN dstMutex(pc) ELSE srcMutex(pc))
       IN /\ l.ok
          /\ result' = l.held
    /\ fpc' = [fpc EXCEPT !.at = CASE fpc.at = "pop" -> "in_pop"
                                   [] fpc.at = "push" -> "in_push"
                                   [] OTHER -> "in_clear"]
    /\ UNCHANGED <<fileQueue, unfileQueue, renderQueue, renderUnqueue, pc, arg, hrest>>

\* FileQueue::pop returns, lines 414 and 423
DrainPop ==
    /\ pc \in Sides
    /\ fpc.at = "in_pop"
    /\ LET r == pop(srcOf(pc))
       IN /\ IF pc = "drainAdd"
             THEN fileQueue' = r.q /\ unfileQueue' = unfileQueue
             ELSE unfileQueue' = r.q /\ fileQueue' = fileQueue
          /\ fpc' = IF r.ret
                    THEN [fpc EXCEPT !.at = "push", !.path = r.out]
                    ELSE [fpc EXCEPT !.at = "clear"]
    /\ result' = unlock(result, "loop")
    /\ UNCHANGED <<renderQueue, renderUnqueue, pc, arg, hrest>>

\* FileQueue::push returns, lines 415 and 424
DrainPush ==
    /\ pc \in Sides
    /\ fpc.at = "in_push"
    /\ LET r == push(dstOf(pc), fpc.path)
       IN IF pc = "drainAdd"
          THEN renderQueue' = r.q /\ renderUnqueue' = renderUnqueue
          ELSE renderUnqueue' = r.q /\ renderQueue' = renderQueue
    /\ fpc' = [fpc EXCEPT !.at = "pop", !.pending[pc] = @ \ {fpc.path}]
    /\ result' = unlock(result, "loop")
    /\ UNCHANGED <<fileQueue, unfileQueue, pc, arg, hrest>>

\* FileQueue::clear returns, lines 417 and 426
DrainClear ==
    /\ pc \in Sides
    /\ fpc.at = "in_clear"
    /\ IF pc = "drainAdd"
       THEN fileQueue' = clear(fileQueue) /\ unfileQueue' = unfileQueue
       ELSE unfileQueue' = clear(unfileQueue) /\ fileQueue' = fileQueue
    /\ fpc' = [fpc EXCEPT !.at = "unlock"]
    /\ result' = unlock(result, "loop")
    /\ UNCHANGED <<renderQueue, renderUnqueue, pc, arg, hrest>>

\* the scopes of lines 411-418 and 419-427 end
DrainUnlock ==
    /\ pc \in Sides
    /\ fpc.at = "unlock"
    /\ result' = unlock(result, "loop")
    /\ fpc' = [fpc EXCEPT !.at = "lock", !.path = EmptyStr]
    /\ pc' = IF pc = "drainAdd" THEN "drainRemove" ELSE "decide"
    /\ UNCHANGED <<fileQueue, unfileQueue, renderQueue, renderUnqueue, arg, hrest>>

\* the rest of the iteration takes neither dispatcher mutex
NextHandoff ==
    \/ WatcherEvent
    \/ WatcherRecheck
    \/ WatcherLock
    \/ WatcherEnter
    \/ WatcherContains
    \/ WatcherPush
    \/ WatcherUnlock
    \/ LoopClear
    \/ DrainLock
    \/ DrainEnter
    \/ DrainPop
    \/ DrainPush
    \/ DrainClear
    \/ DrainUnlock
    \/ LoopIdle
    \/ LoopAcquire
    \/ LoopConverted
    \/ LoopCancel
    \/ onError
    \/ onStopped

SpecHandoff == InitHandoff /\ [][NextHandoff]_vars

(* The dispatcher alone: the watcher thread is given events of every action *)
(* on files of several kinds in the watched directory and in its download/  *)
(* subdirectory, and the signal handler calls stop() at any moment, also    *)
(* while a callback is between its reads of should_stop_ and its            *)
(* lock_guard.                                                              *)

NextD ==
    \/ WatcherEventOn(Dirs, Files, Actions)
    \/ WatcherRecheck
    \/ WatcherLock
    \/ WatcherEnter
    \/ WatcherContains
    \/ WatcherPush
    \/ WatcherUnlock
    \/ stop

SpecD == InitHandoff /\ [][NextD]_vars

-----------------------------------------------------------------------------
(* Claims about the watch loop and the engine observer, checked under Spec *)

PathOfA == WATCH_DIR \o FileA
PathOfB == WATCH_DIR \o FileB

\* the loop is about to run lines 464-475 with the path in flight in
\* remove_queue, put there by a Delete observed during the render
CancelOfRendering ==
    /\ pc = "decide"
    /\ ~empty(renderQueue)
    /\ active_render
    /\ inflight # << >>
    /\ contains(renderUnqueue, Head(inflight))
    /\ deletedInFlight

\* C1: when a Delete for the .bsz path the engine is rendering has reached
\* remove_queue while that render is in flight, the loop's next pass over
\* remove_queue stops the engine and releases the render slot.
C1_DeleteOfRenderingStopsEngine ==
    [][(CancelOfRendering /\ pc' = "clear") => (stopRequested' /\ ~active_render')]_vars

\* C2: a .bsz path whose Delete was observed while it was waiting, and that
\* was not re-added afterwards, is never loaded into or started by the engine.
C2_DeletedWhileQueuedNeverStarted ==
    [][(Len(inflight') > Len(inflight)) => (engineScene' \notin deleted)]_vars

\* C3: the render slot is single-consumer: at most one render started by the
\* loop has not yet stopped, and the slot is held while it is in flight.
C3_SingleRenderInFlight ==
    /\ Len(inflight) <= 1
    /\ inflight # << >> => active_render
    /\ inflight # << >> => engineScene = Head(inflight)

\* C3 witness: a render is in flight, a second .bsz has gone through an
\* iteration of the loop without being started and waits at the front of
\* add_queue, and the loop is about to decide again.
C3_Witness ==
    /\ inflight = <<PathOfA>>
    /\ pc = "decide"
    /\ renderQueue.pathVector = <<PathOfB>>
    /\ active_render

\* C4: once the conversion of a popped .vmax path returns, active_render is
\* false again.
C4_SlotReleasedAfterConversion ==
    [][(pc = "convert" /\ pc' # "convert") => ~active_render']_vars

\* C5: when the engine has reported an error for a render, the render slot
\* is released.
C5_ErrorReleasesSlot == errored => ~active_render

\* C18: when the conversion of a .vmax path popped from add_queue returns,
\* the scene it produced has been written to a scene file.
C18_ConvertedSceneWritten ==
    [][(pc = "convert" /\ pc' # "convert") => (written' # written)]_vars

\* the paths observed and not yet popped, earliest first: the loop's
\* add_queue, then the dispatcher's add queue without the paths add_queue
\* already holds (the drain's push skips those)
Pending(fq, rq) ==
    rq.pathVector \o SelectSeq(fq.pathVector, LAMBDA path : ~contains(rq, path))

\* C20: paths are processed in the order of their observation.  On every
\* step the pending paths keep their order and a path newly observed goes
\* behind them all (the pending paths of before are a prefix of those of
\* after), leaving aside a path the step takes out of add_queue (popped, or
\* removed on a Delete; an observation of it repeated meanwhile then counts
\* anew); the path the loop pops is the earliest pending one; and the
\* loop reaches the drain of the remove queue only by the drain of the add
\* queue, and moves removes to remove_queue nowhere else.
C20_ObservationOrderKept ==
    [][/\ (fileQueue' # fileQueue \/ renderQueue' # renderQueue)
            => LET old == Pending(fileQueue, renderQueue)
                   new == Pending(fileQueue', renderQueue')
                   taken == renderQueue.pathMap \ renderQueue'.pathMap
                   kept == SelectSeq(old, LAMBDA path :
                               path \notin taken
                               /\ (contains(fileQueue', path) \/ contains(renderQueue', path)))
                   rest == SelectSeq(new, LAMBDA path : path \notin taken)
               IN /\ Len(kept) <= Len(rest)
                  /\ SubSeq(rest, 1, Len(kept)) = kept
       /\ (pc = "decide" /\ ~active_render /\ active_render')
            => /\ renderQueue.pathVector =
                      <<Head(Pending(fileQueue, renderQueue))>> \o renderQueue'.pathVector
               /\ endsWith(Head(renderQueue.pathVector), EXT_BSZ)
                      => engineScene' = Head(Pending(fileQueue, renderQueue))
       /\ (pc # "drainRemove" /\ pc' = "drainRemove")
            => (pc = "drainAdd" /\ empty(fileQueue'))
       /\ (renderUnqueue'.pathMap \ renderUnqueue.pathMap # {})
            => pc = "drainRemove"]_vars

\* C20 witness: w/b.bsz was popped and started; w/c.vmax and then w/a.bsz,
\* observed after it, wait in that order in add_queue; w/b.bsz has been
\* observed again and waits behind both in the dispatcher's add queue.
C20_Witness ==
    /\ pc = "clear"
    /\ inflight = <<PathOfB>>
    /\ renderQueue.pathVector = <<WATCH_DIR \o FileC, PathOfA>>
    /\ fileQueue.pathVector = <<PathOfB>>

\* C23: at the point where the loop decides whether to start work, an empty
\* renderQueue (add_queue) implies an empty renderUnqueue (remove_queue).
C23_NoDeletesWithoutPendingWork ==
    (pc = "decide" /\ empty(renderQueue)) => empty(renderUnqueue)

\* C28: a path that waits in add_queue and whose last event is an Add (it
\* is not in `deleted`, the paths deleted while waiting and not re-added)
\* leaves add_queue only by being popped for processing: no Delete observed
\* before that Add removes it.
C28_DeleteNeverCancelsLaterAdd ==
    [][\A p \in renderQueue.pathMap \ renderQueue'.pathMap :
          p \in deleted \/ (~active_render /\ active_render')]_vars

-----------------------------------------------------------------------------
(* Claims about the dispatcher, checked under SpecD *)

\* C10: an Add or Modified event is pushed to the add queue only if the path
\* ends in .vmax, .bsz or .zip and the directory does not end in download/;
\* an event whose directory ends in download/ leaves the add queue unchanged.
C10_DownloadNeverQueued ==
    [][fileQueue' # fileQueue
          => /\ arg.side = "drainAdd"
             /\ \/ endsWith(arg.belPath, EXT_VMAX)
                \/ endsWith(arg.belPath, EXT_BSZ)
                \/ endsWith(arg.belPath, EXT_ZIP)
             /\ ~endsWith(arg.parentPath, DOWNLOAD_DIR)]_vars

\* how many times path occurs in the queue's sequence
Occurrences(fq, path) ==
    Cardinality({i \in 1..Len(fq.pathVector) : fq.pathVector[i] = path})

\* C11: when a callback for an Add or Modified of a .bsz path returns and the
\* dispatcher has pushed a Delete of that path before (no drain has taken it
\* since), the remove queue and the add queue each hold the path exactly
\* once; and no event, repeated or not, ever leaves a path twice in either
\* queue.
C11_DeleteThenAddBothQueuedOnce ==
    [][/\ \A dir \in Dirs, filename \in Files :
            Occurrences(fileQueue', dir \o filename) <= 1
            /\ Occurrences(unfileQueue', dir \o filename) <= 1
       /\ (/\ arg.pc = "unlock"
           /\ arg'.pc = "idle"
           /\ arg.side = "drainAdd"
           /\ endsWith(arg.belPath, EXT_BSZ)
           /\ arg.belPath \in fpc.pending["drainRemove"])
          => /\ Occurrences(unfileQueue', arg.belPath) = 1
             /\ Occurrences(fileQueue', arg.belPath) = 1]_vars

\* C11 witness: the callback for an Add of w/a.bsz has pushed the path to
\* the add queue, which held another path, after a Delete of w/a.bsz had been
\* pushed to the remove queue, and is about to return.
C11_Witness ==
    /\ arg.pc = "unlock"
    /\ arg.side = "drainAdd"
    /\ arg.belPath = PathOfA
    /\ arg.pushed
    /\ PathOfA \in fpc.pending["drainRemove"]
    /\ contains(unfileQueue, PathOfA)
    /\ size(fileQueue) = 2

\* C12: once should_stop_ is set it stays set, a callback that begins while
\* it is set returns at once, and no queue is changed by a callback that
\* began while it was set.
C12_StoppedDispatcherLeavesQueues ==
    [][/\ should_stop_ => should_stop_'
       /\ (should_stop_ /\ arg.pc = "idle") => arg'.pc = "idle"
       /\ (fileQueue' # fileQueue \/ unfileQueue' # unfileQueue) => ~arg.stopped]_vars

\* C12 witness: stop() has been called after events were queued, and a
\* callback that began after it has returned with both queues occupied and
\* paths left that it could have queued.
C12_Witness ==
    /\ should_stop_
    /\ arg.pc = "idle"
    /\ arg.stopped
    /\ size(fileQueue) >= 1
    /\ size(unfileQueue) >= 1
    /\ size(fileQueue) < Cardinality({f \in Files : isQueued(WATCH_DIR \o f, WATCH_DIR)})

-----------------------------------------------------------------------------
(* Claims about FileQueue, checked under SpecQ *)

LastCall == calls[Len(calls)]
PrevCall == calls[Len(calls) - 1]

\* C6: after any sequence of push, pop, probe, remove, contains and clear
\* calls the ordered sequence and the lookup set agree: same size, a path is
\* in the set iff it is in the sequence, and no path occurs twice in the
\* sequence.
C6_SequenceAndSetAgree ==
    /\ Len(q.pathVector) = Cardinality(q.pathMap)
    /\ \A path \in QPaths : path \in q.pathMap <=> path \in Range(q.pathVector)
    /\ \A i, j \in 1..Len(q.pathVector) : q.pathVector[i] = q.pathVector[j] => i = j

\* C6 witness: a queue holding several paths has just had a path removed
\* from its middle, after an earlier pop or push.
C6_Witness ==
    /\ Len(calls) >= 2
    /\ LastCall.op = "remove" /\ LastCall.ret
    /\ Len(LastCall.pre.pathVector) = 3
    /\ LastCall.pre.pathVector[2] = LastCall.path
    /\ Len(q.pathVector) = 2

\* C7: pop removes and returns the front element, which is the
\* earliest-pushed path still in the queue, and returns none when the queue
\* is empty; push a, push b, push a, pop, pop, pop on a new queue returns a,
\* then b, then none.
C7_PopReturnsEarliestPushed ==
    /\ (Len(calls) >= 1 /\ LastCall.op = "pop") =>
          IF LastCall.pre.pathVector # << >>
          THEN /\ LastCall.ret
               /\ LastCall.out = LastCall.first
               /\ LastCall.out = Head(LastCall.pre.pathVector)
               /\ q.pathVector = Tail(LastCall.pre.pathVector)
               /\ ~contains(q, LastCall.out)
          ELSE /\ ~LastCall.ret
               /\ LastCall.out = EmptyStr
               /\ LastCall.first = EmptyStr
               /\ q = LastCall.pre
    /\ scn = 4 => LastCall.ret /\ LastCall.out = PathA
    /\ scn = 5 => LastCall.ret /\ LastCall.out = PathB
    /\ scn = 6 => ~LastCall.ret /\ LastCall.out = EmptyStr

\* C7 witness: the seed scenario has run to its end.
C7_Witness == scn = 6 /\ LastCall.op = "pop" /\ PrevCall.op = "pop" /\ PrevCall.out = PathB

\* C8 as stated: push appends iff absent and returns whether it appended, a
\* push of a held path changes nothing, and after push(p); push(p) the size
\* has increased by exactly 1, for every queue and path.
C8_Original ==
    (/\ Len(calls) >= 2
     /\ LastCall.op = "push" /\ PrevCall.op = "push"
     /\ LastCall.path = PrevCall.path)
    => size(q) = size(PrevCall.pre) + 1

\* C8 amended: push(p) appends p at the back iff p is absent and returns
\* whether it appended; push(p) on a queue that holds p changes nothing;
\* after push(p); push(p) the size has increased by exactly 1 when p was
\* absent before the first push and is unchanged when p was already held.
C8_PushTwice ==
    /\ (Len(calls) >= 1 /\ LastCall.op = "push") =>
          /\ LastCall.ret = ~contains(LastCall.pre, LastCall.path)
          /\ IF contains(LastCall.pre, LastCall.path)
             THEN q = LastCall.pre
             ELSE /\ q.pathVector = Append(LastCall.pre.pathVector, LastCall.path)
                  /\ q.pathMap = LastCall.pre.pathMap \cup {LastCall.path}
    /\ (/\ Len(calls) >= 2
        /\ LastCall.op = "push" /\ PrevCall.op = "push"
        /\ LastCall.path = PrevCall.path)
       => /\ ~LastCall.ret
          /\ q = LastCall.pre
          /\ size(q) = size(PrevCall.pre)
                         + (IF contains(PrevCall.pre, PrevCall.path) THEN 0 ELSE 1)

\* C8 witness: the same absent path has been pushed twice onto a non-empty queue.
C8_Witness ==
    /\ Len(calls) >= 2
    /\ LastCall.op = "push" /\ PrevCall.op = "push"
    /\ LastCall.path = PrevCall.path
    /\ PrevCall.ret
    /\ PrevCall.pre.pathVector # << >>
    /\ size(q) = size(PrevCall.pre) + 1

\* C9 as stated: for every queue and path, after push(p); remove(p) the
\* queue does not contain p and its size equals its value before the push.
C9_Original ==
    (/\ Len(calls) >= 2
     /\ LastCall.op = "remove" /\ PrevCall.op = "push"
     /\ LastCall.path = PrevCall.path)
    => /\ ~contains(q, LastCall.path)
       /\ size(q) = size(PrevCall.pre)

\* C9 amended: after push(p); remove(p) the queue does not contain p; its
\* size equals its value before the push when p was absent before the push,
\* and is one less than that value when p was already held.
C9_PushRemove ==
    (/\ Len(calls) >= 2
     /\ LastCall.op = "remove" /\ PrevCall.op = "push"
     /\ LastCall.path = PrevCall.path)
    => /\ LastCall.ret
       /\ ~contains(q, LastCall.path)
       /\ LastCall.path \notin Range(q.pathVector)
       /\ size(q) = size(PrevCall.pre)
                      - (IF contains(PrevCall.pre, PrevCall.path) THEN 1 ELSE 0)
       /\ ~contains(PrevCall.pre, PrevCall.path) => q = PrevCall.pre

\* C9 witness: an absent path was pushed onto a non-empty queue and removed again.
C9_Witness ==
    /\ Len(calls) >= 2
    /\ LastCall.op = "remove" /\ PrevCall.op = "push"
    /\ LastCall.path = PrevCall.path
    /\ PrevCall.ret
    /\ PrevCall.pre.pathVector # << >>
    /\ q = PrevCall.pre

-----------------------------------------------------------------------------
(* Claims about the Morton decoder, checked under SpecMorton *)

\* the coordinate whose bits are bits k, k+3, k+6, ... of the code
deinterleave(morton, k) ==
    Value({i \in 0..((MortonBits - 1) \div 3) : (3 * i + k) \in Bits(morton)})

\* C15: for every code below 2^30, decodeMorton3DOptimized returns x = bits
\* 0, 3, ..., 27 of the code compacted into a 10-bit value, y = bits 1, 4,
\* ..., 28 and z = bits 2, 5, ..., 29.
C15_DecodeExactOnThirtyBits ==
    fpc = "done" =>
        result = <<deinterleave(arg.morton, 0), deinterleave(arg.morton, 1),
                   deinterleave(arg.morton, 2)>>

\* C16: decoding the Morton interleave of (x, y, z) gives (x, y, z) back, for
\* all coordinates of a 32-cube (and so of an 8-cube).
C16_DecodeInvertsInterleave ==
    (fpc = "done" /\ arg.from # << >>) => result = arg.from

\* C16 witness: a triple with three different coordinates, the largest one
\* of the 32-cube among them, has been interleaved and decoded.
C16_Witness ==
    /\ fpc = "done"
    /\ arg.from = <<31, 5, 18>>
    /\ arg.morton = interleave3(31, 5, 18)
    /\ result = <<31, 5, 18>>

-----------------------------------------------------------------------------
(* Claims about the assembly of a model, checked under SpecAssemble *)

\* every snapshot has been consumed
Assembled == ~fpc.fault /\ fpc.next = Len(arg)

\* the index of the latest snapshot whose chunk ID is c
LatestSnapshot(c) ==
    CHOOSE i \in 1..Len(arg) :
        /\ arg[i].c = c
        /\ \A j \in (i + 1)..Len(arg) : arg[j].c # c

\* what one snapshot alone contributes to an empty model
VoxelsOf(snapshot) ==
    addVoxels(<< >>,
              vmaxVoxelInfo(snapshot.ds, vmaxChunkInfo(snapshot).id,
                            vmaxChunkInfo(snapshot).mortoncode),
              vmaxChunkInfo(snapshot))

\* C13: in a model assembled from its snapshots in array order, the voxels
\* with chunk = c are exactly the voxels decoded from the latest snapshot
\* whose chunk ID is c; voxels of earlier snapshots of that chunk are absent.
C13_LatestSnapshotReplacesChunk ==
    Assembled =>
        \A c \in {arg[i].c : i \in 1..Len(arg)} :
            {v \in Range(result) : v.chunkID = c} = Range(VoxelsOf(arg[LatestSnapshot(c)]))

\* C14: for each local voxel decoded from a snapshot with chunk ID c, the
\* assembled model holds a voxel of that material and colour at
\* (cx*32 + local_x, cy*32 + local_y, cz*32 + local_z), (cx, cy, cz) being
\* the Morton decoding of c.
C14_WorldPositionIsChunkTimes32 ==
    Assembled =>
        \A i \in 1..Len(arg) :
            LET chunk == decodeMorton3DOptimized(arg[i].c)
                locals == decodeVoxels(arg[i].ds, arg[i].min, arg[i].c)
            IN \A k \in 1..Len(locals) :
                  (locals[k].material < 8) =>
                      \E v \in Range(result) :
                          /\ v.chunkID = arg[i].c
                          /\ v.material = locals[k].material
                          /\ v.palette = locals[k].palette
                          /\ v.x = chunk[1] * 32 + locals[k].x
                          /\ v.y = chunk[2] * 32 + locals[k].y
                          /\ v.z = chunk[3] * 32 + locals[k].z

-----------------------------------------------------------------------------
(* Claims about the material selection, checked under SpecMaterial *)

\* the rules in the stated order, each a condition and a class; the
\* metalness rule compares with the constant the code compares with, the
\* single-precision 0.1
MaterialRules ==
    << <<arg.material = 7, "liquid">>,
       <<arg.material = 6 \/ arg.a < 255, "glass">>,
       <<arg.metalness > FloatOneTenth, "metal">>,
       <<arg.transmission > 0, "dielectric">>,
       <<arg.emission > 0, "emitter">>,
       <<TRUE, "plastic">> >>

\* the rules as the specification words them: the metalness rule compares
\* with the decimal 0.1
MaterialRulesAsStated ==
    << <<arg.material = 7, "liquid">>,
       <<arg.material = 6 \/ arg.a < 255, "glass">>,
       <<arg.metalness > OneTenth, "metal">>,
       <<arg.transmission > 0, "dielectric">>,
       <<arg.emission > 0, "emitter">>,
       <<TRUE, "plastic">> >>

FirstMatching(rules) ==
    rules[CHOOSE i \in 1..Len(rules) :
              rules[i][1] /\ \A j \in 1..(i - 1) : ~rules[j][1]][2]

\* C17: the class of a bucket is that of the first matching rule in the
\* order liquid (index 7), glass (index 6 or alpha < 255), metal (metalness
\* above 0.1, as the single-precision constant 0.1f), dielectric
\* (transmission > 0), emitter (emission > 0), plastic; so index 7 with
\* alpha < 255 is liquid, and metalness above the constant with
\* transmission > 0 is metal unless an earlier rule matches.
C17_FirstMatchingRuleWins ==
    fpc = "done" =>
        /\ result = FirstMatching(MaterialRules)
        /\ (arg.material = 7 /\ arg.a < 255) => result = "liquid"
        /\ (arg.material < 6 /\ arg.a = 255 /\ arg.metalness > FloatOneTenth
            /\ arg.transmission > 0) => result = "metal"

\* C17 as stated: the class of a bucket is that of the first matching rule
\* in the order liquid (index 7), glass (index 6 or alpha < 255), metal
\* (metalness > 0.1), dielectric (transmission > 0), emitter (emission > 0),
\* plastic; so index 7 with alpha < 255 is liquid, and metalness > 0.1 with
\* transmission > 0 is metal.  A metalness above 0.1 and not above the
\* single-precision 0.1f refutes it.
C17_Original ==
    fpc = "done" =>
        /\ result = FirstMatching(MaterialRulesAsStated)
        /\ (arg.material = 7 /\ arg.a < 255) => result = "liquid"
        /\ (arg.material < 6 /\ arg.a = 255 /\ arg.metalness > OneTenth
            /\ arg.transmission > 0) => result = "metal"

\* C17 witness: a bucket of index 7 whose palette entry is translucent has
\* been classified, and it is liquid; its material is also metallic,
\* transmissive and emissive.
C17_Witness ==
    /\ fpc = "done"
    /\ arg.material = 7
    /\ arg.a = 254
    /\ arg.metalness = 5 * OneTenth
    /\ arg.transmission > 0
    /\ arg.emission > 0
    /\ result = "liquid"

-----------------------------------------------------------------------------
(* Claims about the conversion of one model, checked under SpecConvert *)

\* C19: a canonical model is built only when the palette image was there
\* and decoded and the material settings file was there; with either
\* missing the conversion throws and builds nothing.
C19_NoModelWithoutPaletteOrMaterials ==
    /\ result.canonical # << >> =>
           (arg.png.exists /\ arg.png.decodes /\ arg.materials.exists)
    /\ (fpc \in {"built", "fault"}) =>
           (arg.png.exists /\ arg.png.decodes /\ arg.materials.exists)

-----------------------------------------------------------------------------
(* Claims about the chunk decoder, checked under SpecDecode *)

\* the pair indices of a stream whose colour byte is not zero, in increasing
\* order
RECURSIVE ColouredPairs(_, _)
ColouredPairs(ds, i) ==
    IF i >= Len(ds) \div 2
    THEN << >>
    ELSE (IF ds[2 * i + 2] # 0 THEN <<i>> ELSE << >>) \o ColouredPairs(ds, i + 1)

\* C21: for a stream of at least one byte, base offset b and chunk c, the
\* decoder returns one voxel for every pair index i below floor(len/2) whose
\* colour byte is not zero, in increasing i, at the exact de-interleaving of
\* i + b, with the pair's first byte as material, its second as palette,
\* chunk c and offset b; nothing else is returned.
C21_OneVoxelPerColouredPair ==
    fpc = "returned" =>
        LET pairs == ColouredPairs(arg.ds, 0)
        IN /\ Len(result.voxels) = Len(pairs)
           /\ \A k \in 1..Len(pairs) :
                 LET i == pairs[k]
                 IN result.voxels[k] =
                        [x |-> deinterleave(i + arg.b, 0),
                         y |-> deinterleave(i + arg.b, 1),
                         z |-> deinterleave(i + arg.b, 2),
                         material |-> arg.ds[2 * i + 1],
                         palette |-> arg.ds[2 * i + 2],
                         chunkID |-> arg.c, minMorton |-> arg.b]

\* C21 witness: a stream of five bytes with a colour-0 pair followed by a
\* coloured pair, decoded at a base offset that is not zero, has returned one
\* voxel.
C21_Witness ==
    /\ fpc = "returned"
    /\ Len(arg.ds) = 5
    /\ arg.ds[2] = 0
    /\ arg.ds[4] # 0
    /\ arg.b # 0
    /\ arg.c # 0
    /\ Len(result.voxels) = 1

\* C22: for a stream of any length the call returns, it has read only
\* indices below the length of the stream, and for the empty stream it
\* returns no voxel.
C22_DecoderReadsInsideStream ==
    fpc # "call" =>
        /\ fpc = "returned"
        /\ result.read \subseteq 0..(Len(arg.ds) - 1)
        /\ (arg.ds = << >> => result.voxels = << >>)

-----------------------------------------------------------------------------
(* Claims about the hand-off, checked under SpecHandoff *)

\* C24 as stated: no thread holds more than one of the mutexes that guard a
\* queue.
C24_AtMostOneMutexHeld ==
    \A t \in Threads : Len(result[t]) <= 1

\* C24: a thread takes a dispatcher mutex (fileQueueMutex, unfileQueueMutex)
\* only while it holds no mutex, and takes the mutex of a FileQueue only
\* while it holds no other FileQueue's mutex: it holds at most one
\* dispatcher mutex and, taken inside it, at most one FileQueue mutex.
C24_OneDispatcherMutexThenOneQueueMutex ==
    \A t \in Threads :
        /\ Len(result[t]) <= 2
        /\ \A i \in 1..Len(result[t]) :
              IF i = 1
              THEN result[t][i] \in DispatcherMutexes
              ELSE result[t][i] \in QueueMutexes

\* C24 witness: the loop holds fileQueueMutex and, inside it, the mutex of
\* renderQueue while the watcher waits for fileQueueMutex.
C24_Witness ==
    /\ result["loop"] = <<"fileQueueMutex", "renderQueue.mutex">>
    /\ arg.pc = "lock"
    /\ arg.side = "drainAdd"

\* C27: a path pushed by the dispatcher to its add queue (remove queue) and
\* not pushed to renderQueue (renderUnqueue) by a drain yet is in the
\* dispatcher's queue or in the local of the drain that has popped it.
C27_NoPathLostInHandoff ==
    \A side \in Sides :
        fpc.pending[side] \subseteq
            (srcOf(side).pathMap
             \cup (IF pc = side /\ fpc.at \in {"push", "in_push"}
                   THEN {fpc.path} ELSE {}))

\* C27 witness: while the drain of the add queue is between its last pop and
\* its clear, having moved a path, the watcher waits for fileQueueMutex with
\* an Add of another path.
C27_Witness ==
    /\ pc = "drainAdd"
    /\ fpc.at \in {"clear", "in_clear"}
    /\ renderQueue.pathMap # {}
    /\ arg.pc = "lock"
    /\ arg.side = "drainAdd"
    /\ arg.belPath \notin renderQueue.pathMap

-----------------------------------------------------------------------------
(* Claims about the decompression loop, checked under SpecDecompress *)

\* C25: the loop ends in success or in the failure return of line 591, and
\* for a file the codec answers 0 for at every buffer size it ends in that
\* failure return; it never goes on doubling until the allocation fails.
C25_DecompressEndsInSuccessOrFailure ==
    /\ fpc \in {"start", "loop", "success", "failure"}
    /\ (fpc \in {"success", "failure"} /\ arg.decoded = 0) => fpc = "failure"

-----------------------------------------------------------------------------
(* Claims about the instance matrices, checked under SpecInstance *)

\* the pairs of the snapshot that become voxels of the model: colour not 0
\* and material below 8
InstancedPairs ==
    {i \in 0..(Len(arg.ds) \div 2 - 1) :
        arg.ds[2 * i + 2] # 0 /\ arg.ds[2 * i + 1] < MaterialCount}

\* chunk coordinate times 32 plus the exact de-interleaving of i + b
WorldPosition(i) ==
    [k \in 1..3 |-> deinterleave(arg.c, k - 1) * 32 + deinterleave(i + arg.min, k - 1)]

\* C26: for a snapshot with chunk ID c <= 511 and every pair i with
\* i + b < 32768 that becomes a voxel, the translation emitted for it in its
\* bucket is chunk_coord * 32 + decode3(i + b) on each axis and lies in
\* 0..255, and no other translation is emitted.
C26_TranslationIsChunkTimes32 ==
    (fpc = "instanced" /\ arg.c <= 511
        /\ \A i \in InstancedPairs : i + arg.min < 32768) =>
        /\ \A i \in InstancedPairs :
              LET mc == <<arg.ds[2 * i + 1], arg.ds[2 * i + 2]>>
              IN /\ mc \in DOMAIN result.xforms
                 /\ WorldPosition(i) \in Range(result.xforms[mc])
                 /\ \A k \in 1..3 : WorldPosition(i)[k] \in 0..255
        /\ \A mc \in DOMAIN result.xforms :
              /\ \A t \in Range(result.xforms[mc]) :
                    \E i \in InstancedPairs :
                        /\ mc = <<arg.ds[2 * i + 1], arg.ds[2 * i + 2]>>
                        /\ t = WorldPosition(i)
              /\ Len(result.xforms[mc]) =
                    Cardinality({i \in InstancedPairs :
                                    mc = <<arg.ds[2 * i + 1], arg.ds[2 * i + 2]>>})

\* C26 witness: the last voxel of the last chunk (chunk 511, Morton code
\* 32767) has been instanced at (255, 255, 255).
C26_Witness ==
    /\ fpc = "instanced"
    /\ arg.c = 511
    /\ arg.min = 32766
    /\ \E mc \in DOMAIN result.xforms : <<255, 255, 255>> \in Range(result.xforms[mc])

-----------------------------------------------------------------------------
(* Claims about the render slot, checked under SpecArchive *)

\* C29: whenever active_render is true the engine has a render in flight or
\* a conversion is running; popping a .zip path leaves neither and so does
\* not leave the slot held.
C29_SlotHeldOnlyWhileWorking ==
    active_render => (inflight # << >> \/ pc = "convert")

-----------------------------------------------------------------------------
(* Claims about render jobs, checked under SpecRender *)

RenderPaths == {WATCH_DIR \o filename : filename \in RenderFiles}

\* C30: with .bsz paths only, no Delete, a loop that keeps iterating and an
\* engine that ends every render with onStopped, every path in the
\* dispatcher's add queue eventually reaches add_queue, and every path in
\* add_queue is eventually popped from it, loaded into and started by the
\* engine.
C30_QueuedRenderEventuallyStarted ==
    \A p \in RenderPaths :
        /\ contains(fileQueue, p) ~> contains(renderQueue, p)
        /\ contains(renderQueue, p) ~>
              (~contains(renderQueue, p) /\ engineScene = p /\ inflight = <<p>>)

\* C30 witness: while one scene renders, the other waits in add_queue after
\* an iteration that could not start it, and the scene that renders has
\* been pushed to the dispatcher's add queue again.
C30_Witness ==
    /\ pc = "decide"
    /\ active_render
    /\ inflight = <<WATCH_DIR \o FileB>>
    /\ renderQueue.pathVector = <<WATCH_DIR \o FileA>>
    /\ fileQueue.pathVector = <<WATCH_DIR \o FileB>>

====
